---- MODULE Spec2Model ----
(***************************************************************************)
(* Model of the Nuke MCP bridge server (githubpradeep/nuke-mcp).           *)
(*                                                                         *)
(* The repository consists of four tool modules (objects that map a tool   *)
(* name to {schema, handler, description}) and a server module that, when  *)
(* it is loaded, registers every tool of every module on one McpServer     *)
(* and then exports the server.  After that the server answers tool calls, *)
(* one call at a time: a call naming a registered tool runs that tool's    *)
(* handler, a call naming anything else is answered with an error and runs *)
(* no handler.  The handlers are stubs: each returns a text built from its *)
(* arguments and touches neither the server nor any other shared object.   *)
(*                                                                         *)
(* The repository has no batch executor, dependency resolver or result     *)
(* aggregator.  The only thing resembling a batch is the "operations"      *)
(* list of the examples guide: an ordered list of {tool, args} that a      *)
(* client carries out as successive tool calls.  The model records the     *)
(* calls of one such list in `requests`.                                   *)
(***************************************************************************)
EXTENDS Naturals, Sequences, FiniteSets

(***************************************************************************)
(* Bounds.                                                                 *)
(***************************************************************************)
\* the longest operations list a client sends
MaxCalls == 3

\* the longest operations list sent to a server whose answers are compared
\* with those of a second, freshly loaded server
MaxProbedCalls == 2

(***************************************************************************)
(* The tool modules: Object.entries(toolsObject) enumerates the keys in    *)
(* the order they are written in the object literal.                       *)
(***************************************************************************)
basicOperations ==
    << "createNode", "setKnobValue", "getNode", "execute", "connectNodes",
       "setNodePosition", "getNodePosition" >>

nodeOrganization ==
    << "createGroup", "createLiveGroup", "loadTemplate", "saveTemplate",
       "autoArrangeNodes", "createBackdrop" >>

advancedVfxOperations ==
    << "setupCameraTracking", "setupDeepCompositing", "batchProcess",
       "setupMachineLearning", "setupKeying", "setupMotionBlur",
       "createBasicComp", "setupStereoRig", "setupParticleSystem",
       "setupLensDistortion", "setupGrainManagement" >>

\* tools/project-management.js is imported and registered by the server
\* module; its tool names are those the server's usage guide lists
projectManagement ==
    << "loadScript", "saveScript", "configureProjectSettings", "listNodes",
       "filterNodes" >>

\* the four registerTools(...) calls of the server module, in program order
ToolModules ==
    << basicOperations, nodeOrganization, advancedVfxOperations,
       projectManagement >>

Range(s) == { s[i] : i \in 1..Len(s) }

\* the server's tools once every registerTools call has returned
LoadedTools ==
    basicOperations \o nodeOrganization \o advancedVfxOperations
        \o projectManagement

\* every tool name some module defines
AllTools == UNION { Range(ToolModules[m]) : m \in 1..Len(ToolModules) }

\* the names a client puts in a call: tools of the examples guide, and two
\* names no module defines
CallNames ==
    { "createNode", "setKnobValue", "connectNodes", "execute",
      "setupCameraTracking", "runBatch", "deleteNode" }

(***************************************************************************)
(* Arguments.  An optional argument is << >> when the caller leaves it out *)
(* (undefined in the handler) and << v >> when the caller passes v.        *)
(* Strings are strings, numbers are their decimal text, booleans are       *)
(* "true" and "false", arrays are sequences.                               *)
(***************************************************************************)
None == << >>

Some(v) == << v >>

\* arg !== undefined
IsGiven(o) == Len(o) = 1

\* `arg ? ... : ''` for an optional string: undefined and "" are falsy
IsTruthyString(o) == IsGiven(o) /\ o[1] # ""

\* the arguments of a call the model does not look into
NoArgs == << >>

\* arguments a client passes, each set within the tool's schema
CreateNodeArgs ==
    [ nodeType : { "Blur" },
      name : { None, Some(""), Some("Blur1") },
      position : { None, Some([ x |-> "0", y |-> "100" ]) },
      inputs : { None, Some(<< "ReadInput", "GradeNode" >>) } ]

ConnectNodesArgs ==
    [ fromNode : { "Blur1", "ReadInput" },
      toNode : { "Write1" },
      inputIndex : { None, Some("1") } ]

SetKnobValueArgs ==
    [ nodeName : { "ReadInput" },
      knobName : { "file" },
      value : { [ kind |-> "string", v |-> "/path/to/input.exr" ],
                [ kind |-> "number", v |-> "0.8" ] } ]

ExecuteArgs ==
    [ nodeName : { "WriteOutput" },
      frameRange : { None, Some("1-10") } ]

SetupCameraTrackingArgs ==
    [ sourceName : { "PlateInput" },
      trackingPoints : { None, Some("15") },
      createScene : { None, Some("true") },
      solveMethod : { None },
      exportPath : { None } ]

\* the arguments a client passes with a call of `name`
ArgsOf(name) ==
    CASE name = "createNode" -> CreateNodeArgs
      [] name = "connectNodes" -> ConnectNodesArgs
      [] name = "setKnobValue" -> SetKnobValueArgs
      [] name = "execute" -> ExecuteArgs
      [] name = "setupCameraTracking" -> SetupCameraTrackingArgs
      [] OTHER -> { NoArgs }

VARIABLES
    phase,           \* "loading" while the server module's top level runs,
                     \* "serving" once it has exported the server
    moduleIdx,       \* the registerTools call being executed (1..4)
    entryIdx,        \* the entry of that module forEach is at
    registeredTools, \* the server's tools, in registration order
    requests,        \* the tool names called so far, in call order
    callArgs,        \* the arguments of each call, in call order
    invoked,         \* the handlers that were run, in order
    responses,       \* the answer to each call, in call order
    probe            \* << >>, or << [name, args, response] >>: a call and
                     \* the answer a second, freshly loaded server gave it

vars ==
    << phase, moduleIdx, entryIdx, registeredTools, requests, callArgs,
       invoked, responses, probe >>

\* the names the server holds a tool for
Registry == Range(registeredTools)

TypeOK ==
    /\ phase \in { "loading", "serving" }
    /\ moduleIdx \in 1..(Len(ToolModules) + 1)
    /\ entryIdx \in Nat \ { 0 }
    /\ registeredTools \in Seq(AllTools)
    /\ requests \in Seq(CallNames)
    /\ invoked \in Seq(CallNames)
    /\ Len(callArgs) = Len(requests)
    /\ \A i \in 1..Len(requests) : callArgs[i] \in ArgsOf(requests[i])
    /\ Len(responses) = Len(requests)
    /\ Len(probe) <= 1

Init ==
    /\ phase = "loading"
    /\ moduleIdx = 1
    /\ entryIdx = 1
    /\ registeredTools = << >>
    /\ requests = << >>
    /\ callArgs = << >>
    /\ invoked = << >>
    /\ responses = << >>
    /\ probe = None

(***************************************************************************)
(* server.tool(name, schema, handler, ...): the server gains a tool        *)
(***************************************************************************)
ServerTool(tools, name) == Append(tools, name)

(***************************************************************************)
(* One iteration of the forEach of registerTools(toolsObject).  After the  *)
(* last entry of a module the next registerTools call begins.              *)
(***************************************************************************)
RegisterTool ==
    /\ phase = "loading"
    /\ moduleIdx <= Len(ToolModules)
    /\ registeredTools' = ServerTool(registeredTools, ToolModules[moduleIdx][entryIdx])
    /\ IF entryIdx < Len(ToolModules[moduleIdx])
          THEN /\ entryIdx' = entryIdx + 1
               /\ moduleIdx' = moduleIdx
          ELSE /\ entryIdx' = 1
               /\ moduleIdx' = moduleIdx + 1
    /\ UNCHANGED << phase, requests, callArgs, invoked, responses, probe >>

(***************************************************************************)
(* The end of the server module: every registerTools call has returned     *)
(* and the server is exported; only from here on can it be called.         *)
(***************************************************************************)
ExportServer ==
    /\ phase = "loading"
    /\ moduleIdx = Len(ToolModules) + 1
    /\ phase' = "serving"
    /\ UNCHANGED << moduleIdx, entryIdx, registeredTools, requests, callArgs,
                    invoked, responses, probe >>

(***************************************************************************)
(* What running a handler does to the server's tools: nothing.  Every      *)
(* handler only builds and returns {content: [{type, text}]}.              *)
(***************************************************************************)
HandlerRegistersTool(tools, name) == Append(tools, name)

HandlerEffect(tools, name) == tools

(***************************************************************************)
(* The text a handler returns, as the sequence of the pieces its template  *)
(* literal is made of: the fixed pieces and the interpolated arguments.    *)
(***************************************************************************)
RECURSIVE Join(_)
\* array.join(', ')
Join(array) ==
    IF Len(array) = 0 THEN << >>
    ELSE IF Len(array) = 1 THEN << array[1] >>
    ELSE << array[1], ", " >> \o Join(Tail(array))

\* JSON.stringify(value) of a string or a number
JSONstringify(value) ==
    IF value.kind = "string" THEN << "\"", value.v, "\"" >> ELSE << value.v >>

\* ` at position (${position.x}, ${position.y})`
PositionText(position) ==
    IF IsGiven(position)
      THEN << " at position (", position[1].x, ", ", position[1].y, ")" >>
      ELSE << >>

\* a createNode that names the node itself when the caller gives no name
createNodeGeneratesName(a) ==
    << "Created ", a.nodeType, " node", " named \"",
       IF IsTruthyString(a.name) THEN a.name[1] ELSE "Node1", "\"" >>
      \o PositionText(a.position)
      \o (IF IsGiven(a.inputs)
            THEN << " with inputs: " >> \o Join(a.inputs[1]) ELSE << >>)

\* a createNode that numbers the nodes it has created so far
createNodeCountsNodes(a) ==
    << "Created ", a.nodeType, " node", " named \"",
       IF IsTruthyString(a.name) THEN a.name[1] ELSE "Node",
       << "1", "2", "3", "4", "5", "6" >>[Len(invoked) + 1], "\"" >>
      \o PositionText(a.position)
      \o (IF IsGiven(a.inputs)
            THEN << " with inputs: " >> \o Join(a.inputs[1]) ELSE << >>)

createNode(a) ==
    << "Created ", a.nodeType, " node" >>
      \o (IF IsTruthyString(a.name)
            THEN << " named \"", a.name[1], "\"" >> ELSE << >>)
      \o PositionText(a.position)
      \o (IF IsGiven(a.inputs)
            THEN << " with inputs: " >> \o Join(a.inputs[1]) ELSE << >>)

setKnobValue(a) ==
    << "Set knob \"", a.knobName, "\" on node \"", a.nodeName,
       "\" to value: " >> \o JSONstringify(a.value)

execute(a) ==
    << "Executing Write node \"", a.nodeName, "\"" >>
      \o (IF IsTruthyString(a.frameRange)
            THEN << " for frame range: ", a.frameRange[1] >> ELSE << >>)

\* inputIndex = 0 unless the caller passes one
connectNodes(a) ==
    << "Connected node \"", a.fromNode, "\" to input ",
       IF IsGiven(a.inputIndex) THEN a.inputIndex[1] ELSE "0",
       " of node \"", a.toNode, "\"" >>

\* trackingPoints = 10, createScene = false, solveMethod = "MatchMove"
\* unless the caller passes them
setupCameraTracking(a) ==
    << "Set up camera tracking for \"", a.sourceName, "\" with ",
       IF IsGiven(a.trackingPoints) THEN a.trackingPoints[1] ELSE "10",
       " tracking points using ",
       IF IsGiven(a.solveMethod) THEN a.solveMethod[1] ELSE "MatchMove",
       " method" >>
      \o (IF IsGiven(a.createScene) /\ a.createScene[1] = "true"
            THEN << " and created a 3D scene" >> ELSE << >>)
      \o (IF IsTruthyString(a.exportPath)
            THEN << " and exported tracking data to \"", a.exportPath[1],
                    "\"" >>
            ELSE << >>)

\* tool.handler(args) of the tool registered under `name`
HandlerText(name, args) ==
    CASE name = "createNode" -> createNode(args)
      [] name = "connectNodes" -> connectNodes(args)
      [] name = "setKnobValue" -> setKnobValue(args)
      [] name = "execute" -> execute(args)
      [] name = "setupCameraTracking" -> setupCameraTracking(args)

\* the answer of a handler: a content result, never an error
HandlerResult(name, args) ==
    [ isError |-> FALSE, tool |-> name, text |-> HandlerText(name, args) ]

\* the answer to a call naming no registered tool: an error, no handler text
ToolNotFound(name) == [ isError |-> TRUE, tool |-> name, text |-> << >> ]

\* how many calls the client makes
CallLimit == IF IsGiven(probe) THEN MaxProbedCalls ELSE MaxCalls

\* the server's answer to one call
Answer(name, args) ==
    IF name \in Registry THEN HandlerResult(name, args) ELSE ToolNotFound(name)

(***************************************************************************)
(* The server module is loaded in two processes.  The second one is called *)
(* once, before anything else is asked of it, and its answer is kept in    *)
(* `probe`; the first one is exported and goes on to serve its client.     *)
(* Loading is deterministic, so the second server is in the state the      *)
(* first one is in when it is exported.                                    *)
(***************************************************************************)
ExportServerProbed(name, args) ==
    /\ phase = "loading"
    /\ moduleIdx = Len(ToolModules) + 1
    /\ phase' = "serving"
    /\ probe' = Some([ name |-> name, args |-> args,
                       response |-> Answer(name, args) ])
    /\ UNCHANGED << moduleIdx, entryIdx, registeredTools, requests, callArgs,
                    invoked, responses >>

(***************************************************************************)
(* A call of a registered tool: its handler runs, once.                    *)
(***************************************************************************)
CallTool(name, args) ==
    /\ phase = "serving"
    /\ Len(requests) < CallLimit
    /\ name \in Registry
    /\ requests' = Append(requests, name)
    /\ callArgs' = Append(callArgs, args)
    /\ invoked' = Append(invoked, name)
    /\ responses' = Append(responses, HandlerResult(name, args))
    /\ registeredTools' = HandlerEffect(registeredTools, name)
    /\ UNCHANGED << phase, moduleIdx, entryIdx, probe >>

(***************************************************************************)
(* A call of a name the server holds no tool for: no handler runs, and the *)
(* calls made before it stay as they were.                                 *)
(***************************************************************************)
CallUnknownTool(name, args) ==
    /\ phase = "serving"
    /\ Len(requests) < CallLimit
    /\ name \notin Registry
    /\ requests' = Append(requests, name)
    /\ callArgs' = Append(callArgs, args)
    /\ responses' = Append(responses, ToolNotFound(name))
    /\ UNCHANGED << phase, moduleIdx, entryIdx, registeredTools, invoked,
                    probe >>

Next ==
    \/ RegisterTool
    \/ ExportServer
    \/ \E name \in CallNames : \E args \in ArgsOf(name) : CallTool(name, args)
    \/ \E name \in CallNames :
          \E args \in ArgsOf(name) : CallUnknownTool(name, args)

Spec == Init /\ [][Next]_vars

\* the server serving its client after a second server answered one call
NextProbed ==
    \/ RegisterTool
    \/ \E name \in CallNames :
          \E args \in ArgsOf(name) : ExportServerProbed(name, args)
    \/ \E name \in CallNames : \E args \in ArgsOf(name) : CallTool(name, args)
    \/ \E name \in CallNames :
          \E args \in ArgsOf(name) : CallUnknownTool(name, args)

SpecProbed == Init /\ [][NextProbed]_vars

(***************************************************************************)
(* The calls of `requests` that name a registered tool, in call order.     *)
(***************************************************************************)
IsRegistered(name) == name \in Registry

KnownRequests == SelectSeq(requests, IsRegistered)

HasUnknownRequest == \E i \in 1..Len(requests) : requests[i] \notin Registry

HasPiece(text, piece) == \E k \in 1..Len(text) : text[k] = piece

\* the piece that follows the first occurrence of `piece`
PieceAfter(text, piece) ==
    text[(CHOOSE k \in 1..Len(text) :
            text[k] = piece /\ \A l \in 1..(k - 1) : text[l] # piece) + 1]

\* the two calls of the scenario: a node of type Blur created without a
\* name, then a connection to Write1
TwoStepBatch ==
    /\ Len(requests) = 2
    /\ requests[1] = "createNode"
    /\ callArgs[1].nodeType = "Blur"
    /\ ~IsGiven(callArgs[1].name)
    /\ requests[2] = "connectNodes"
    /\ callArgs[2].toNode = "Write1"

C14_AnswerDependsOnRequestOnly ==
    /\ phase = "serving" => registeredTools = LoadedTools
    /\ \A i \in 1..Len(requests) :
          (/\ IsGiven(probe)
           /\ requests[i] = probe[1].name
           /\ callArgs[i] = probe[1].args)
            => responses[i] = probe[1].response
    /\ \A i, j \in 1..Len(requests) :
          (requests[i] = requests[j] /\ callArgs[i] = callArgs[j])
            => responses[i] = responses[j]

\* after another createNode call, the server is sent the call the fresh
\* server answered, and has answered it
C14_Witness ==
    /\ IsGiven(probe)
    /\ Len(requests) = 2
    /\ requests[1] = "createNode"
    /\ requests[2] = "createNode"
    /\ probe[1].name = "createNode"
    /\ callArgs[2] = probe[1].args
    /\ callArgs[1] # callArgs[2]
    /\ ~responses[2].isError
    /\ responses[2] = probe[1].response

====
